---- MODULE Spec2Model ----
(***************************************************************************)
(* ARP scan engine of arp_scan_rust: the interface catalog                 *)
(* (get_available_interfaces), the frame builder (build_arp_packet), and   *)
(* the scan orchestrator (arp_scan with its receive loop                   *)
(* receive_arp_responses), modelled from src/src/net.rs.                   *)
(*                                                                         *)
(* Three specifications share the module:                                  *)
(*   SpecCatalog  the interface list of the host and its filtering         *)
(*   SpecFrame    build_arp_packet applied to bounded inputs               *)
(*   Spec         one execution of arp_scan on one interface               *)
(***************************************************************************)
EXTENDS Integers, Sequences, FiniteSets, TLC

VARIABLES
    \* --- interface catalog ---
    all_interfaces,   \* Vec<NetworkInterface> handed to get_available_interfaces
    available,        \* its result, a Vec<&NetworkInterface>
    cat_pc,           \* "enumerated" | "listed"
    \* --- frame builder ---
    fb_interface,     \* the interface argument of build_arp_packet
    fb_source_ip,     \* the source_ip argument (an Ipv4Addr)
    fb_first,         \* result of a first call
    fb_second,        \* result of a second call with the same arguments
    fb_pc,            \* "args" | "built" | "rebuilt"
    \* --- scan orchestrator ---
    interface,        \* the interface arp_scan is run on
    state,            \* position of arp_scan
    source_ip,        \* let source_ip in arp_scan
    channel,          \* outcome of pnet::datalink::channel
    sent,             \* frames handed to sender.send_to, in order
    send_results,     \* what send_to returned for each of them
    rx_log,           \* what receiver.next() returned, call by call
    reported,         \* ARP packets printed by println!, in order
    stderr_log,       \* errors printed by eprintln!, in order
    cancel_at,        \* receives done when the caller asked to stop, or -1
    result,           \* what arp_scan returned (or how it aborted)
    \* --- command line and prompt ---
    prompts,          \* read_line calls made by prompt_for_interface
    last_read,        \* what the last read_line gave and what was answered
    index_interface,  \* what prompt_for_interface returned
    selected,         \* interfaces[index_interface] in main
    prompt_pc,        \* "prompting" | "prompted" | "scanning" | "exited"
    args,             \* the command line handed to get_target_ip_from_args
    ip_target,        \* what get_target_ip_from_args returned
    args_pc           \* "args" | "parsed"

catVars  == <<all_interfaces, available, cat_pc>>
fbVars   == <<fb_interface, fb_source_ip, fb_first, fb_second, fb_pc>>
scanVars == <<interface, state, source_ip, channel, sent, send_results,
              rx_log, reported, stderr_log, cancel_at, result>>
cliVars  == <<prompts, last_read, index_interface, selected, prompt_pc,
              args, ip_target, args_pc>>
vars     == <<catVars, fbVars, scanVars, cliVars>>

----------------------------------------------------------------------------
(* Bounds *)

MaxIfaces   == 2   \* interfaces on the host
MaxIps      == 2   \* addresses bound to one interface
MaxReceives == 3   \* receiver.next() calls followed in one scan
MaxPrompts  == 2   \* read_line calls followed in one prompt_for_interface
MaxArgs     == 3   \* command-line arguments, the program name included

----------------------------------------------------------------------------
(* Addresses *)

NoMac   == <<>>                                  \* Option<MacAddr>::None
MacA    == <<170, 187, 204, 221, 238, 255>>      \* aa:bb:cc:dd:ee:ff
MacB    == <<187, 187, 187, 187, 187, 187>>      \* bb:bb:bb:bb:bb:bb
MacC    == <<2, 0, 94, 16, 0, 1>>                \* 02:00:5e:10:00:01

\* IpAddr::V4 / IpAddr::V6 with the address bytes
V4(o)   == [v4 |-> TRUE,  octets |-> o]
V6(o)   == [v4 |-> FALSE, octets |-> o]

Ip10    == <<192, 168, 1, 10>>
Ip55    == <<192, 168, 1, 55>>
Ip20    == <<10, 0, 0, 20>>
Ip6a    == <<254, 128, 0, 0, 0, 0, 0, 0, 0, 0, 0, 0, 0, 0, 0, 1>>  \* fe80::1

\* IpNetwork::is_ipv4 and IpNetwork::ip
is_ipv4(ip) == ip.v4

Addrs   == {V4(Ip10), V4(Ip20), V6(Ip6a)}

SeqsUpTo(S, n) == UNION {[1..k -> S] : k \in 0..n}

\* address lists of an interface: no address is bound twice
IpLists(A) ==
    {l \in SeqsUpTo(A, MaxIps) :
        \A j, k \in 1..Len(l) : j # k => l[j] # l[k]}

\* NetworkInterface: index, mac, ips and the two flag bits the code reads
Interfaces(idx, A) ==
    [index : {idx}, up : BOOLEAN, loopback : BOOLEAN,
     mac : {NoMac, MacA}, ips : IpLists(A)]

\* datalink::interfaces(): the k-th interface of the host has index k; the
\* catalog reads only the family of an address, one address per family
HostInterfaceLists ==
    {[k \in 1..Len(b) |-> [b[k] EXCEPT !.index = k]] :
        b \in SeqsUpTo(Interfaces(0, {V4(Ip10), V6(Ip6a)}), MaxIfaces)}

\* interfaces handed to arp_scan, which reads neither flag
ScanInterfaces == {i \in Interfaces(1, Addrs) : i.up /\ ~i.loopback}

is_up(i)       == i.up
is_loopback(i) == i.loopback

----------------------------------------------------------------------------
(* Interface catalog: net.rs get_available_interfaces *)

\* interface.ips.iter().any(|ip| ip.is_ipv4())
any_ipv4(i) == \E k \in 1..Len(i.ips) : is_ipv4(i.ips[k])

\* the first filter without its loopback test
FirstFilter_NoLoopbackTest(i) == is_up(i)

FirstFilter(i)  == is_up(i) /\ ~is_loopback(i)
SecondFilter(i) == any_ipv4(i)

\* the filter followed by a sort that reverses the order
get_available_interfaces_Reversed(all) ==
    LET r == SelectSeq(SelectSeq(all, FirstFilter), SecondFilter)
    IN  [k \in 1..Len(r) |-> r[Len(r) + 1 - k]]

get_available_interfaces(all) ==
    SelectSeq(SelectSeq(all, FirstFilter), SecondFilter)

InitCatalogVars ==
    /\ all_interfaces \in HostInterfaceLists
    /\ available = <<>>
    /\ cat_pc = "enumerated"

IdleCatalogVars ==
    /\ all_interfaces = <<>>
    /\ available = <<>>
    /\ cat_pc = "enumerated"

\* let interfaces = get_available_interfaces(&binding)
ListScannable ==
    /\ cat_pc = "enumerated"
    /\ available' = get_available_interfaces(all_interfaces)
    /\ cat_pc' = "listed"
    /\ UNCHANGED <<all_interfaces, fbVars, scanVars, cliVars>>

----------------------------------------------------------------------------
(* Wire format: the pnet packet views used by net.rs *)

FrameLen == 42     \* vec![0u8; 42]
ArpLen   == 28     \* [0u8; 28]
EthernetHeaderLen == FrameLen - ArpLen

Zeros(n) == [k \in 1..n |-> 0]

\* big-endian u16 field
U16Bytes(v)  == <<v \div 256, v % 256>>
U16At(b, off) == b[off + 1] * 256 + b[off + 2]

\* write bytes at a byte offset of a buffer; what runs past the end is dropped
SetBytes(buf, off, bytes) ==
    [k \in 1..Len(buf) |->
        IF k > off /\ k <= off + Len(bytes) THEN bytes[k - off] ELSE buf[k]]

\* read n bytes at a byte offset
GetBytes(buf, off, n) == [k \in 1..n |-> buf[off + k]]

EtherTypes_Arp  == 8 * 256 + 6    \* 0x0806
EtherTypes_Ipv4 == 8 * 256 + 0    \* 0x0800
ArpHardwareTypes_Ethernet == 0 + 1
ArpOperations_Request     == 0 + 1
ArpOperations_Reply       == 0 + 2

MacAddr_broadcast == <<255, 255, 255, 255, 255, 255>>
MacAddr_zero      == <<0, 0, 0, 0, 0, 0>>

\* MutableEthernetPacket setters
set_destination(b, mac) == SetBytes(b, 0, mac)
set_source(b, mac)      == SetBytes(b, 6, mac)
set_ethertype(b, t)     == SetBytes(b, 12, U16Bytes(t))
set_payload(b, p)       == SetBytes(b, EthernetHeaderLen, p)

\* MutableArpPacket setters
set_hardware_type(b, t)     == SetBytes(b, 0, U16Bytes(t))
set_protocol_type(b, t)     == SetBytes(b, 2, U16Bytes(t))
set_hw_addr_len(b, n)       == SetBytes(b, 4, <<n>>)
set_proto_addr_len(b, n)    == SetBytes(b, 5, <<n>>)
set_operation(b, op)        == SetBytes(b, 6, U16Bytes(op))
set_sender_hw_addr(b, mac)  == SetBytes(b, 8, mac)
set_sender_proto_addr(b, o) == SetBytes(b, 14, o)
set_target_hw_addr(b, mac)  == SetBytes(b, 18, mac)
set_target_proto_addr(b, o) == SetBytes(b, 24, o)

\* EthernetPacket::new and its getters
EthernetPacket_new(raw) == Len(raw) >= EthernetHeaderLen   \* Some(_) ?
get_destination(b) == GetBytes(b, 0, 6)
get_source(b)      == GetBytes(b, 6, 6)
get_ethertype(b)   == U16At(b, 12)
payload(b)         == SubSeq(b, EthernetHeaderLen + 1, Len(b))

\* ArpPacket::new and its getters
ArpPacket_new(p) == Len(p) >= ArpLen                       \* Some(_) ?
get_hardware_type(p)     == U16At(p, 0)
get_protocol_type(p)     == U16At(p, 2)
get_hw_addr_len(p)       == p[5]
get_proto_addr_len(p)    == p[6]
get_operation(p)         == U16At(p, 6)
get_sender_hw_addr(p)    == GetBytes(p, 8, 6)
get_sender_proto_addr(p) == GetBytes(p, 14, 4)
get_target_hw_addr(p)    == GetBytes(p, 18, 6)
get_target_proto_addr(p) == GetBytes(p, 24, 4)

----------------------------------------------------------------------------
(* Frame builder: net.rs build_arp_packet *)

Panic(msg)  == [kind |-> "panic", msg |-> msg]
Packet(b)   == [kind |-> "packet", bytes |-> b]
UnwrapNone  == "called Option::unwrap() on a None value"

\* the ARP message with the source address written to the target field
arp_packet_SwappedProto(mac, src) ==
    LET b0 == Zeros(ArpLen)
        b1 == set_hardware_type(b0, ArpHardwareTypes_Ethernet)
        b2 == set_protocol_type(b1, EtherTypes_Ipv4)
        b3 == set_hw_addr_len(b2, 6)
        b4 == set_proto_addr_len(b3, 4)
        b5 == set_operation(b4, ArpOperations_Request)
        b6 == set_sender_hw_addr(b5, mac)
        b7 == set_sender_proto_addr(b6, <<0, 0, 0, 0>>)
        b8 == set_target_hw_addr(b7, MacAddr_zero)
        b9 == set_target_proto_addr(b8, src)
    IN  b9

\* the 28-byte ARP message, setter by setter
arp_packet(mac, src) ==
    LET b0 == Zeros(ArpLen)
        b1 == set_hardware_type(b0, ArpHardwareTypes_Ethernet)
        b2 == set_protocol_type(b1, EtherTypes_Ipv4)
        b3 == set_hw_addr_len(b2, 6)
        b4 == set_proto_addr_len(b3, 4)
        b5 == set_operation(b4, ArpOperations_Request)
        b6 == set_sender_hw_addr(b5, mac)
        b7 == set_sender_proto_addr(b6, src)
        b8 == set_target_hw_addr(b7, MacAddr_zero)
        b9 == set_target_proto_addr(b8, <<0, 0, 0, 0>>)
    IN  b9

\* the frame without the set_payload call
build_arp_packet_NoPayload(iface, src) ==
    IF iface.mac = NoMac
    THEN [kind |-> "panic", msg |-> "called Option::unwrap() on a None value"]
    ELSE [kind |-> "packet", bytes |->
            set_ethertype(set_source(set_destination(Zeros(FrameLen),
                MacAddr_broadcast), iface.mac), EtherTypes_Arp)]

build_arp_packet(iface, src) ==
    IF iface.mac = NoMac
    THEN Panic(UnwrapNone)                      \* interface.mac.unwrap()
    ELSE LET e0 == Zeros(FrameLen)
             e1 == set_destination(e0, MacAddr_broadcast)
             e2 == set_source(e1, iface.mac)
             e3 == set_ethertype(e2, EtherTypes_Arp)
             e4 == set_payload(e3, arp_packet(iface.mac, src))
         IN  Packet(e4)

NotBuilt == [kind |-> "none"]

FbMacs == {NoMac, MacA, MacB, MacC}
FbIps  == {<<a, b, c, d>> : a \in {192, 10}, b \in {168, 0},
                            c \in {0, 1}, d \in {10, 55, 255}}

InitFrameVars ==
    /\ fb_interface \in [index : {1}, up : {TRUE}, loopback : {FALSE},
                          mac : FbMacs, ips : {<<>>}]
    /\ fb_source_ip \in FbIps
    /\ fb_first = NotBuilt
    /\ fb_second = NotBuilt
    /\ fb_pc = "args"

IdleFrameVars ==
    /\ fb_interface = [index |-> 1, up |-> TRUE, loopback |-> FALSE,
                        mac |-> NoMac, ips |-> <<>>]
    /\ fb_source_ip = <<0, 0, 0, 0>>
    /\ fb_first = NotBuilt
    /\ fb_second = NotBuilt
    /\ fb_pc = "args"

\* a first call of build_arp_packet
BuildArpPacket ==
    /\ fb_pc = "args"
    /\ fb_first' = build_arp_packet(fb_interface, fb_source_ip)
    /\ fb_pc' = "built"
    /\ UNCHANGED <<fb_interface, fb_source_ip, fb_second, catVars, scanVars, cliVars>>

\* a second call with the same interface and source address
BuildArpPacketAgain ==
    /\ fb_pc = "built"
    /\ fb_second' = build_arp_packet(fb_interface, fb_source_ip)
    /\ fb_pc' = "rebuilt"
    /\ UNCHANGED <<fb_interface, fb_source_ip, fb_first, catVars, scanVars, cliVars>>

----------------------------------------------------------------------------
(* Scan orchestrator: net.rs arp_scan and receive_arp_responses *)

Ok(v)   == [kind |-> "Ok", value |-> v]
Err(e)  == [kind |-> "Err", error |-> e]
NoResult == [kind |-> "none"]
Unit    == "()"

NoIPv4Error == "No IPv4 address found in interface"

\* the lookup taking the last IPv4 address: iter().rev().find(..)
FindIpv4_Last(ips) ==
    IF \E k \in 1..Len(ips) : is_ipv4(ips[k])
    THEN CHOOSE k \in 1..Len(ips) :
            /\ is_ipv4(ips[k])
            /\ \A j \in (k + 1)..Len(ips) : ~is_ipv4(ips[j])
    ELSE 0

\* position of the first IPv4 address in the list (0 when there is none):
\* interface.ips.iter().find(|ip| ip.is_ipv4())
FindIpv4(ips) ==
    IF \E k \in 1..Len(ips) : is_ipv4(ips[k])
    THEN CHOOSE k \in 1..Len(ips) :
            /\ is_ipv4(ips[k])
            /\ \A j \in 1..(k - 1) : ~is_ipv4(ips[j])
    ELSE 0

\* the lookup with unwrap_or(0.0.0.0) in place of ok_or(..)?
get_source_ip_or_unspecified(iface) ==
    LET k == FindIpv4(iface.ips)
    IN  IF k = 0 THEN Ok(<<0, 0, 0, 0>>) ELSE Ok(iface.ips[k].octets)

get_source_ip_from_interface(iface) ==
    LET k == FindIpv4(iface.ips)
    IN  IF k = 0 THEN Err(NoIPv4Error) ELSE Ok(iface.ips[k].octets)

\* frames the segment can deliver to the receiver
EthernetFrame(dst, src, ethertype, body) ==
    set_payload(set_ethertype(set_source(set_destination(
        Zeros(EthernetHeaderLen + Len(body)), dst), src), ethertype), body)

ArpMessage(op, sha, spa, tha, tpa) ==
    set_target_proto_addr(set_target_hw_addr(set_sender_proto_addr(
      set_sender_hw_addr(set_operation(set_proto_addr_len(set_hw_addr_len(
        set_protocol_type(set_hardware_type(Zeros(ArpLen),
          ArpHardwareTypes_Ethernet), EtherTypes_Ipv4), 6), 4), op),
        sha), spa), tha), tpa)

ArpReplyFrame(sha, spa) ==
    EthernetFrame(MacA, sha, EtherTypes_Arp,
                  ArpMessage(ArpOperations_Reply, sha, spa, MacA, Ip10))

\* frames that differ from the reply of (MacC, Ip10) in one respect each
ShortFrame     == SubSeq(ArpReplyFrame(MacC, Ip10), 1, 10)
Ipv4Frame      ==
    EthernetFrame(MacA, MacC, EtherTypes_Ipv4,
                  ArpMessage(ArpOperations_Reply, MacC, Ip10, MacA, Ip10))
TruncatedArp   == SubSeq(ArpReplyFrame(MacC, Ip10), 1, EthernetHeaderLen + 20)
ArpRequestFrame ==
    EthernetFrame(MacAddr_broadcast, MacC, EtherTypes_Arp,
                  ArpMessage(ArpOperations_Request, MacC, Ip10, MacAddr_zero, Ip10))

RxFrames ==
    {ShortFrame, Ipv4Frame, TruncatedArp, ArpRequestFrame,
     ArpReplyFrame(MacB, Ip55), ArpReplyFrame(MacC, Ip10),
     ArpReplyFrame(MacB, Ip10), ArpReplyFrame(MacC, Ip20)}

TimedOut  == "TimedOut"        \* the read timeout elapsed without a frame
IoErrors  == {"NotConnected"}  \* channel closed, interface removed

RxOutcomes == {Ok(f) : f \in RxFrames} \cup {Err(TimedOut)}
              \cup {Err(e) : e \in IoErrors}

\* Ipv4Addr == IpAddr
ipv4_eq(octets, ip) == ip.v4 /\ ip.octets = octets

\* the nested tests without the operation test
IsArpReply_AnyOperation(raw) ==
    /\ EthernetPacket_new(raw)
    /\ get_ethertype(raw) = EtherTypes_Arp
    /\ ArpPacket_new(payload(raw))

\* the three nested tests of the receive loop, up to the operation test
IsArpReply(raw) ==
    /\ EthernetPacket_new(raw)
    /\ get_ethertype(raw) = EtherTypes_Arp
    /\ ArpPacket_new(payload(raw))
    /\ get_operation(payload(raw)) = ArpOperations_Reply

\* what println!("{:?}", arp) shows of the packet
ArpDebug(p) ==
    [operation         |-> get_operation(p),
     sender_hw_addr    |-> get_sender_hw_addr(p),
     sender_proto_addr |-> get_sender_proto_addr(p),
     target_hw_addr    |-> get_target_hw_addr(p),
     target_proto_addr |-> get_target_proto_addr(p)]

\* the decision with EthernetPacket::new(packet).unwrap() on a short frame
on_packet_ShortPanics(raw, iface) ==
    IF ~EthernetPacket_new(raw) THEN "panic"
    ELSE IF ~IsArpReply(raw) THEN "skip"
    ELSE IF Len(iface.ips) = 0 THEN "panic"
    ELSE IF ipv4_eq(get_sender_proto_addr(payload(raw)), iface.ips[1])
         THEN "print" ELSE "skip"

\* one iteration's decision on a frame: "print", "skip" or "panic"
\* (interface.ips[0] is an index out of bounds on an empty list)
on_packet(raw, iface) ==
    IF ~IsArpReply(raw) THEN "skip"
    ELSE IF Len(iface.ips) = 0 THEN "panic"
    ELSE IF ipv4_eq(get_sender_proto_addr(payload(raw)), iface.ips[1])
         THEN "print" ELSE "skip"

IndexOutOfBounds == "index out of bounds: the len is 0 but the index is 0"
UnknownChannel   == "Unknown channel type"

InitScanVars ==
    /\ interface \in ScanInterfaces
    /\ state = "Idle"
    /\ source_ip = <<>>
    /\ channel = NoResult
    /\ sent = <<>>
    /\ send_results = <<>>
    /\ rx_log = <<>>
    /\ reported = <<>>
    /\ stderr_log = <<>>
    /\ cancel_at = -1
    /\ result = NoResult

IdleScanVars ==
    /\ interface = [index |-> 1, up |-> TRUE, loopback |-> FALSE,
                    mac |-> NoMac, ips |-> <<>>]
    /\ state = "Idle"
    /\ source_ip = <<>>
    /\ channel = NoResult
    /\ sent = <<>>
    /\ send_results = <<>>
    /\ rx_log = <<>>
    /\ reported = <<>>
    /\ stderr_log = <<>>
    /\ cancel_at = -1
    /\ result = NoResult

\* line 66 with unwrap_or(Ipv4Addr::UNSPECIFIED) in place of the ?
DeriveSourceIp_IgnoresError ==
    /\ state = "Idle"
    /\ LET r == get_source_ip_from_interface(interface)
       IN  /\ state' = "Opening"
           /\ source_ip' = IF r.kind = "Err" THEN <<0, 0, 0, 0>> ELSE r.value
           /\ UNCHANGED result
    /\ UNCHANGED <<interface, channel, sent, send_results, rx_log, reported,
                   stderr_log, cancel_at, catVars, fbVars, cliVars>>

\* arp_scan, line 66: let source_ip = get_source_ip_from_interface(interface)?
DeriveSourceIp ==
    /\ state = "Idle"
    /\ LET r == get_source_ip_from_interface(interface)
       IN  IF r.kind = "Err"
           THEN /\ state' = "Failed"
                /\ result' = r
                /\ UNCHANGED source_ip
           ELSE /\ state' = "Opening"
                /\ source_ip' = r.value
                /\ UNCHANGED result
    /\ UNCHANGED <<interface, channel, sent, send_results, rx_log, reported,
                   stderr_log, cancel_at, catVars, fbVars, cliVars>>

ChannelOutcomes ==
    {Ok("Ethernet"), Ok("Other"), Err("PermissionDenied"), Err("NotFound")}

\* the match with the error arm of main.rs: Err(e) => panic!(..)
OpenChannel_PanicsOnError ==
    /\ state = "Opening"
    /\ \E c \in ChannelOutcomes :
         /\ channel' = c
         /\ IF c = Ok("Ethernet")
            THEN state' = "Sending" /\ UNCHANGED result
            ELSE IF c.kind = "Ok"
            THEN state' = "Panicked" /\ result' = Panic(UnknownChannel)
            ELSE state' = "Panicked" /\ result' = Panic("Error happened")
    /\ UNCHANGED <<interface, source_ip, sent, send_results, rx_log, reported,
                   stderr_log, cancel_at, catVars, fbVars, cliVars>>

\* arp_scan, lines 71-75: match pnet::datalink::channel(..)
OpenChannel ==
    /\ state = "Opening"
    /\ \E c \in ChannelOutcomes :
         /\ channel' = c
         /\ IF c = Ok("Ethernet")
            THEN state' = "Sending" /\ UNCHANGED result
            ELSE IF c.kind = "Ok"
            THEN state' = "Panicked" /\ result' = Panic(UnknownChannel)
            ELSE state' = "Failed" /\ result' = c
    /\ UNCHANGED <<interface, source_ip, sent, send_results, rx_log, reported,
                   stderr_log, cancel_at, catVars, fbVars, cliVars>>

\* Option<io::Result<()>> returned by send_to
SendOutcomes == {"Some(Ok)", "Some(Err)", "None"}

\* the send with one retry after a failed send_to
Send_RetryOnError ==
    /\ state = "Sending"
    /\ LET p == build_arp_packet(interface, source_ip)
       IN  IF p.kind = "panic"
           THEN /\ state' = "Panicked"
                /\ result' = p
                /\ UNCHANGED <<sent, send_results>>
           ELSE \E r \in SendOutcomes :
                /\ sent' = IF r = "Some(Err)"
                           THEN <<p.bytes, p.bytes>> ELSE <<p.bytes>>
                /\ send_results' = IF r = "Some(Err)"
                                   THEN <<r, "Some(Ok)">> ELSE <<r>>
                /\ state' = "Listening"
                /\ UNCHANGED result
    /\ UNCHANGED <<interface, source_ip, channel, rx_log, reported,
                   stderr_log, cancel_at, catVars, fbVars, cliVars>>

\* arp_scan, line 77: sender.send_to(build_arp_packet(..).packet(), None);
Send ==
    /\ state = "Sending"
    /\ LET p == build_arp_packet(interface, source_ip)
       IN  IF p.kind = "panic"
           THEN /\ state' = "Panicked"
                /\ result' = p
                /\ UNCHANGED <<sent, send_results>>
           ELSE \E r \in SendOutcomes :
                /\ sent' = Append(sent, p.bytes)
                /\ send_results' = Append(send_results, r)
                /\ state' = "Listening"
                /\ UNCHANGED result
    /\ UNCHANGED <<interface, source_ip, channel, rx_log, reported,
                   stderr_log, cancel_at, catVars, fbVars, cliVars>>

\* the iteration with every Err of receiver.next() ending the scan
ReceiveStep_ErrFatal(o) ==
    /\ rx_log' = Append(rx_log, o)
    /\ IF o.kind = "Err"
       THEN /\ state' = "Failed"
            /\ result' = o
            /\ UNCHANGED <<reported, stderr_log>>
       ELSE /\ reported' =
                 IF on_packet(o.value, interface) = "print"
                 THEN Append(reported, ArpDebug(payload(o.value)))
                 ELSE reported
            /\ UNCHANGED <<state, result, stderr_log>>

\* the iteration returning from the loop after the first printed reply
ReceiveStep_StopOnMatch(o) ==
    /\ rx_log' = Append(rx_log, o)
    /\ IF o.kind = "Err"
       THEN /\ stderr_log' = Append(stderr_log, o.error)
            /\ UNCHANGED <<state, reported, result>>
       ELSE /\ UNCHANGED stderr_log
            /\ IF on_packet(o.value, interface) = "print"
               THEN /\ reported' = Append(reported, ArpDebug(payload(o.value)))
                    /\ state' = "Terminated"
                    /\ result' = Ok(Unit)
               ELSE UNCHANGED <<state, reported, result>>

\* the iteration with the newest report put in front of the older ones
ReceiveStep_NewestFirst(o) ==
    /\ rx_log' = Append(rx_log, o)
    /\ IF o.kind = "Err"
       THEN /\ stderr_log' = Append(stderr_log, o.error)
            /\ UNCHANGED <<state, reported, result>>
       ELSE /\ reported' =
                 IF on_packet(o.value, interface) = "print"
                 THEN <<ArpDebug(payload(o.value))>> \o reported
                 ELSE reported
            /\ UNCHANGED <<state, result, stderr_log>>

\* receive_arp_responses: one iteration of the loop on the outcome o
ReceiveStep(o) ==
    /\ rx_log' = Append(rx_log, o)
    /\ IF o.kind = "Err"
       THEN /\ stderr_log' = Append(stderr_log, o.error)
            /\ UNCHANGED <<state, reported, result>>
       ELSE LET d == on_packet(o.value, interface)
            IN  /\ UNCHANGED stderr_log
                /\ IF d = "panic"
                   THEN /\ state' = "Panicked"
                        /\ result' = Panic(IndexOutOfBounds)
                        /\ UNCHANGED reported
                   ELSE /\ reported' =
                             IF d = "print"
                             THEN Append(reported, ArpDebug(payload(o.value)))
                             ELSE reported
                        /\ UNCHANGED <<state, result>>

\* arp_scan, line 79, and the loop of receive_arp_responses
Receive ==
    /\ state = "Listening"
    /\ Len(rx_log) < MaxReceives
    /\ \E o \in RxOutcomes : ReceiveStep(o)
    /\ UNCHANGED <<interface, source_ip, channel, sent, send_results,
                   cancel_at, catVars, fbVars, cliVars>>

\* the caller of arp_scan asks the scan to stop (a signal handler, a
\* deadline timer); nothing in arp_scan or its loop reads the request
RaiseCancel ==
    /\ state = "Listening"
    /\ cancel_at = -1
    \* the request is followed at the point that leaves two more receives
    /\ Len(rx_log) + 2 = MaxReceives
    /\ cancel_at' = Len(rx_log)
    /\ UNCHANGED <<interface, state, source_ip, channel, sent, send_results,
                   rx_log, reported, stderr_log, result, catVars, fbVars, cliVars>>

----------------------------------------------------------------------------
(* Strings: a String is the sequence of its characters *)

Digits     == {"0", "1", "2", "3", "4", "5", "6", "7", "8", "9"}
DigitValue == [c \in Digits |->
                 CHOOSE v \in 0..9 :
                    <<"0", "1", "2", "3", "4", "5", "6", "7", "8", "9">>[v + 1] = c]

\* char::is_whitespace for the characters of the model
IsWhitespace(c) == c \in {" ", "\n", "\t", "\r"}

RECURSIVE trim_start(_)
trim_start(s) ==
    IF Len(s) > 0 /\ IsWhitespace(s[1]) THEN trim_start(Tail(s)) ELSE s

RECURSIVE trim_end(_)
trim_end(s) ==
    IF Len(s) > 0 /\ IsWhitespace(s[Len(s)])
    THEN trim_end(SubSeq(s, 1, Len(s) - 1)) ELSE s

\* str::trim
trim(s) == trim_end(trim_start(s))

RECURSIVE DecimalValue(_)
DecimalValue(s) ==
    IF Len(s) = 0 THEN 0
    ELSE 10 * DecimalValue(SubSeq(s, 1, Len(s) - 1)) + DigitValue[s[Len(s)]]

\* str::parse::<usize>: an optional "+", then one or more decimal digits
parse_usize(s) ==
    LET body == IF Len(s) > 0 /\ s[1] = "+" THEN Tail(s) ELSE s
    IN  IF Len(body) = 0 THEN Err("Empty")
        ELSE IF \E k \in 1..Len(body) : body[k] \notin Digits
             THEN Err("InvalidDigit")
             ELSE Ok(DecimalValue(body))

----------------------------------------------------------------------------
(* Prompt: cli.rs prompt_for_interface and its use in main *)

InvalidNumber == "Invalid interface number. Please enter a valid number: "
InvalidInput  == "Invalid input. Please enter a valid number."

\* lines read_line can put into the buffer (the last one is end of input)
Lines ==
    {<<"0", "\n">>, <<"1", "\n">>, <<" ", "1", " ", "\r", "\n">>,
     <<"+", "1", "\n">>, <<"2", "\n">>, <<"1", "0", "\n">>,
     <<"-", "1", "\n">>, <<"e", "t", "h", "0", "\n">>, <<"\n">>, <<>>}

ReadOutcomes == {Ok(l) : l \in Lines} \cup {Err("InvalidData")}

\* the body with <= in place of < in the range test
prompt_line_OffByOne(input, len) ==
    LET n == parse_usize(trim(input))
    IN  IF n.kind = "Ok"
        THEN IF n.value <= len
             THEN [kind |-> "return", value |-> n.value]
             ELSE [kind |-> "retry", msg |-> InvalidNumber]
        ELSE [kind |-> "retry", msg |-> InvalidInput]

\* the body of the loop after a successful read_line: the index to return
\* or the message of the re-prompt
prompt_line(input, len) ==
    LET n == parse_usize(trim(input))
    IN  IF n.kind = "Ok"
        THEN IF n.value < len
             THEN [kind |-> "return", value |-> n.value]
             ELSE [kind |-> "retry", msg |-> InvalidNumber]
        ELSE [kind |-> "retry", msg |-> InvalidInput]

\* the lists get_available_interfaces can hand to the prompt
AvailableLists == {get_available_interfaces(h) : h \in HostInterfaceLists}

NoRead == [kind |-> "none"]

InitPromptVars ==
    /\ prompts = 0
    /\ last_read = NoRead
    /\ index_interface = NoResult
    /\ selected = NoResult
    /\ prompt_pc = "prompting"

IdleArgsVars ==
    /\ args = <<>>
    /\ ip_target = NoResult
    /\ args_pc = "args"

IdleCliVars == InitPromptVars /\ IdleArgsVars

\* one iteration of the loop of prompt_for_interface
PromptForInterface ==
    /\ prompt_pc = "prompting"
    /\ prompts < MaxPrompts
    /\ prompts' = prompts + 1
    /\ \E r \in ReadOutcomes :
         IF r.kind = "Err"
         THEN /\ last_read' = [read |-> r, said |-> "none"]
              /\ index_interface' = r              \* read_line(..)?
              /\ prompt_pc' = "exited"             \* process::exit(1) in main
         ELSE LET d == prompt_line(r.value, Len(available))
              IN  IF d.kind = "return"
                  THEN /\ last_read' = [read |-> r, said |-> "none"]
                       /\ index_interface' = Ok(d.value)
                       /\ prompt_pc' = "prompted"
                  ELSE /\ last_read' = [read |-> r, said |-> d.msg]
                       /\ UNCHANGED <<index_interface, prompt_pc>>
    /\ UNCHANGED <<selected, args, ip_target, args_pc, catVars, fbVars, scanVars>>

\* main: arp_scan(interfaces[index_interface], ..)
IndexInterfaces ==
    /\ prompt_pc = "prompted"
    /\ IF index_interface.value + 1 \in 1..Len(available)
       THEN /\ selected' = Ok(available[index_interface.value + 1])
            /\ prompt_pc' = "scanning"
       ELSE /\ selected' = Panic("index out of bounds")
            /\ prompt_pc' = "panicked"
    /\ UNCHANGED <<prompts, last_read, index_interface, args, ip_target,
                   args_pc, catVars, fbVars, scanVars>>

\* main after get_available_interfaces returned; the list of all interfaces
\* is not read again
InitPrompt ==
    /\ all_interfaces = <<>>
    /\ available \in AvailableLists
    /\ cat_pc = "listed"
    /\ IdleFrameVars /\ IdleScanVars /\ IdleCliVars
NextPrompt == PromptForInterface \/ IndexInterfaces
SpecPrompt == InitPrompt /\ [][NextPrompt]_vars

----------------------------------------------------------------------------
(* Command line: cli.rs get_target_ip_from_args *)

\* position of the first c in s, 0 when there is none (str::find)
FindChar(s, c) ==
    IF \E k \in 1..Len(s) : s[k] = c
    THEN CHOOSE k \in 1..Len(s) : s[k] = c /\ \A j \in 1..(k - 1) : s[j] # c
    ELSE 0

\* str::split(c) collected: the pieces between the separators
RECURSIVE SplitOn(_, _)
SplitOn(s, c) ==
    LET k == FindChar(s, c)
    IN  IF k = 0 THEN <<s>>
        ELSE <<SubSeq(s, 1, k - 1)>> \o SplitOn(SubSeq(s, k + 1, Len(s)), c)

\* one decimal octet of Ipv4Addr::from_str: 1 to 3 digits, no leading
\* zero, at most 255
IsOctet(part) ==
    /\ Len(part) \in 1..3
    /\ \A k \in 1..Len(part) : part[k] \in Digits
    /\ (Len(part) > 1 => part[1] # "0")
    /\ DecimalValue(part) <= 255

\* Ipv4Addr::from_str
parse_ipv4_addr(s) ==
    LET parts == SplitOn(s, ".")
    IN  IF Len(parts) = 4 /\ \A k \in 1..4 : IsOctet(parts[k])
        THEN Ok([k \in 1..4 |-> DecimalValue(parts[k])])
        ELSE Err("AddrParseError")

\* ipnetwork parse_prefix(s, 32): a u8 that is at most 32
parse_prefix(s) ==
    LET n == parse_usize(s)
    IN  IF n.kind = "Ok" /\ Len(s) <= 4 /\ n.value <= 255 /\ n.value <= 32
        THEN Ok(n.value)
        ELSE Err(<<"invalid prefix">>)

\* Ipv4Network::from_str; the error is the text its Display writes
Ipv4Network_from_str(s) ==
    LET parts == SplitOn(s, "/")
    IN  IF Len(parts) > 2
        THEN Err(<<"invalid CIDR format: ">> \o s)
        ELSE LET addr == parse_ipv4_addr(parts[1])
                 pfx  == IF Len(parts) = 2 THEN parse_prefix(parts[2])
                         ELSE Ok(32)
             IN  IF addr.kind = "Err"
                 THEN Err(<<"invalid address: ">> \o parts[1])
                 ELSE IF pfx.kind = "Err" THEN pfx
                 ELSE Ok([ip |-> addr.value, prefix |-> pfx.value])

MissingTarget   == "Missing target IP address"
FailedToParse   == "Failed to parse IP address: "

\* the function reading the first argument in place of the second
get_target_ip_from_first_arg(a) ==
    IF Len(a) < 1 THEN Err(<<MissingTarget>>)
    ELSE LET r == Ipv4Network_from_str(a[1])
         IN  IF r.kind = "Err" THEN Err(<<FailedToParse>> \o r.error)
             ELSE Ok(r.value)

\* args.nth(1).ok_or_else(..)?.parse::<Ipv4Network>().map_err(..)?
get_target_ip_from_args(a) ==
    IF Len(a) < 2 THEN Err(<<MissingTarget>>)
    ELSE LET r == Ipv4Network_from_str(a[2])
         IN  IF r.kind = "Err" THEN Err(<<FailedToParse>> \o r.error)
             ELSE Ok(r.value)

ArgProgram ==   \* arp_scan
    <<"a", "r", "p", "_", "s", "c", "a", "n">>
ArgNet24 ==   \* 192.168.0.1/24
    <<"1", "9", "2", ".", "1", "6", "8", ".", "0", ".", "1", "/", "2",
      "4">>
ArgNet8 ==   \* 10.0.0.0/8
    <<"1", "0", ".", "0", ".", "0", ".", "0", "/", "8">>
ArgHost ==   \* 192.168.0.1
    <<"1", "9", "2", ".", "1", "6", "8", ".", "0", ".", "1">>
ArgInvalidIp ==   \* invalid_ip
    <<"i", "n", "v", "a", "l", "i", "d", "_", "i", "p">>
ArgInvalidMask ==   \* 192.168.0.1/invalid_mask
    <<"1", "9", "2", ".", "1", "6", "8", ".", "0", ".", "1", "/", "i",
      "n", "v", "a", "l", "i", "d", "_", "m", "a", "s", "k">>
ArgPrefix33 ==   \* 192.168.0.1/33
    <<"1", "9", "2", ".", "1", "6", "8", ".", "0", ".", "1", "/", "3",
      "3">>
ArgOctet256 ==   \* 256.1.1.1/24
    <<"2", "5", "6", ".", "1", ".", "1", ".", "1", "/", "2", "4">>
ArgTwoSlashes ==   \* 10.0.0.0/8/8
    <<"1", "0", ".", "0", ".", "0", ".", "0", "/", "8", "/", "8">>

ArgStrings ==
    {ArgProgram, ArgNet24, ArgNet8, ArgHost, ArgInvalidIp, ArgInvalidMask,
     ArgPrefix33, ArgOctet256, ArgTwoSlashes}

InitArgsVars ==
    /\ args \in SeqsUpTo(ArgStrings, MaxArgs)
    /\ ip_target = NoResult
    /\ args_pc = "args"

\* main: let target_ip = get_target_ip_from_args(env::args())
GetTargetIp ==
    /\ args_pc = "args"
    /\ ip_target' = get_target_ip_from_args(args)
    /\ args_pc' = "parsed"
    /\ UNCHANGED <<args, prompts, last_read, index_interface, selected,
                   prompt_pc, catVars, fbVars, scanVars>>

InitArgs == IdleCatalogVars /\ IdleFrameVars /\ IdleScanVars
            /\ InitPromptVars /\ InitArgsVars
NextArgs == GetTargetIp
SpecArgs == InitArgs /\ [][NextArgs]_vars

----------------------------------------------------------------------------
(* Specifications *)

Init        == IdleCatalogVars /\ IdleFrameVars /\ InitScanVars /\ IdleCliVars
Next        == DeriveSourceIp \/ OpenChannel \/ Send \/ Receive \/ RaiseCancel
Spec        == Init /\ [][Next]_vars

InitCatalog == InitCatalogVars /\ IdleFrameVars /\ IdleScanVars /\ IdleCliVars
NextCatalog == ListScannable
SpecCatalog == InitCatalog /\ [][NextCatalog]_vars

InitFrame   == IdleCatalogVars /\ InitFrameVars /\ IdleScanVars /\ IdleCliVars
NextFrame   == BuildArpPacket \/ BuildArpPacketAgain
SpecFrame   == InitFrame /\ [][NextFrame]_vars

----------------------------------------------------------------------------
(* Properties *)

Range(f) == {f[k] : k \in DOMAIN f}

\* the three predicates of the catalog, read off the interface record
Scannable(i) == i.up /\ ~i.loopback /\ (\E a \in Range(i.ips) : a.v4)

\* C1: after get_available_interfaces, an interface of the input is in the
\* result if and only if it is up, not loopback and has an IPv4 address.
C1_FilterIsConjunction ==
    cat_pc = "listed" =>
        \A k \in 1..Len(all_interfaces) :
            (all_interfaces[k] \in Range(available))
                <=> Scannable(all_interfaces[k])

C1_Witness ==
    /\ cat_pc = "listed"
    /\ Len(all_interfaces) = 2
    /\ Len(available) = 1
    /\ \E k \in 1..2 : /\ all_interfaces[k].up
                       /\ all_interfaces[k].loopback
                       /\ any_ipv4(all_interfaces[k])

\* C2: the result of get_available_interfaces is a subsequence of the input
\* in the input's order, each element being the unchanged input element, and
\* it is the empty sequence when no interface qualifies.
C2_StableFilter ==
    cat_pc = "listed" =>
        /\ \A j \in 1..Len(available) :
              /\ available[j].index \in 1..Len(all_interfaces)
              /\ available[j] = all_interfaces[available[j].index]
        /\ \A j, k \in 1..Len(available) :
              j < k => available[j].index < available[k].index
        /\ (\A k \in 1..Len(all_interfaces) : ~Scannable(all_interfaces[k]))
              => available = <<>>

C2_Witness ==
    /\ cat_pc = "listed"
    /\ Len(available) = 2
    /\ available[1] # [available[2] EXCEPT !.index = 1]

\* the 42 bytes of the request for MAC m and source address s, byte by byte
RequestBytes(m, s) ==
    <<255, 255, 255, 255, 255, 255>> \o m \o <<8, 6>>
    \o <<0, 1>> \o <<8, 0>> \o <<6>> \o <<4>> \o <<0, 1>>
    \o m \o s \o <<0, 0, 0, 0, 0, 0>> \o <<0, 0, 0, 0>>

\* C3: for an interface with MAC m and a source address s, build_arp_packet
\* yields exactly 42 bytes: broadcast destination, source m, ethertype
\* 0x0806, then hardware type 1, protocol type 0x0800, lengths 6 and 4,
\* operation 1, sender (m, s), target (00:00:00:00:00:00, 0.0.0.0).
C3_RequestLayout ==
    (fb_pc # "args" /\ fb_interface.mac # NoMac) =>
        /\ fb_first.kind = "packet"
        /\ Len(fb_first.bytes) = 42
        /\ fb_first.bytes = RequestBytes(fb_interface.mac, fb_source_ip)

C3_Witness ==
    /\ fb_pc = "built"
    /\ fb_interface.mac = MacA
    /\ fb_source_ip = Ip10
    /\ fb_first.kind = "packet"

ConfigurationError == "interface has no hardware address"

\* C5: when the interface has no MAC address, building the request fails
\* with a ConfigurationError returned to the caller, and no frame is sent.
C5_NoMacIsConfigurationError ==
    (interface.mac = NoMac /\ channel = Ok("Ethernet") /\ state # "Sending") =>
        /\ state = "Failed"
        /\ result = Err(ConfigurationError)
        /\ sent = <<>>

\* a raw frame that is an ARP message of the given operation, by offsets
WellFormedArp(raw, op) ==
    /\ Len(raw) >= 14 + 28
    /\ raw[13] = 8 /\ raw[14] = 6
    /\ raw[21] = 0 /\ raw[22] = op

IsReplyOutcome(o) == o.kind = "Ok" /\ WellFormedArp(o.value, 2)

\* C6: a receive that delivers a frame with a non-ARP ethertype, a
\* truncated or unparseable ARP payload, or an ARP request reports nothing;
\* a report is made only for a well-formed ARP reply.
C6_OnlyRepliesReported ==
    [][\A o \in RxOutcomes :
          rx_log' = Append(rx_log, o) =>
             IF IsReplyOutcome(o)
             THEN \/ reported' = reported
                  \/ /\ Len(reported') = Len(reported) + 1
                     /\ SubSeq(reported', 1, Len(reported)) = reported
                     /\ reported'[Len(reported')].operation = 2
             ELSE reported' = reported]_vars

C6_Witness ==
    /\ state = "Listening"
    /\ interface.ips = <<V4(Ip10)>>
    /\ rx_log = <<Ok(Ipv4Frame), Ok(TruncatedArp), Ok(ArpRequestFrame)>>
    /\ reported = <<>>

\* C7: every received well-formed ARP reply is reported with its sender
\* hardware and protocol address, whatever the sender's address is.
C7_EveryReplyReported ==
    [][\A o \in RxOutcomes :
          (rx_log' = Append(rx_log, o) /\ IsReplyOutcome(o)) =>
             reported' = Append(reported, ArpDebug(payload(o.value)))]_vars

\* C8: arp_scan on an interface without an IPv4 address fails with the
\* no-source-address error as its result; no channel is opened, no frame
\* is sent and nothing is received.
C8_NoSourceAddress ==
    (~\E a \in Range(interface.ips) : a.v4) =>
        /\ state \in {"Idle", "Failed"}
        /\ state = "Failed" => result = Err(NoIPv4Error)
        /\ channel = NoResult
        /\ sent = <<>> /\ send_results = <<>>
        /\ rx_log = <<>>

C8_Witness ==
    /\ state = "Failed"
    /\ interface.ips = <<V6(Ip6a)>>
    /\ result = Err(NoIPv4Error)
    /\ channel = NoResult

\* C9: a read timeout from receive() is not a failure: the step leaves the
\* orchestrator Listening with nothing reported by it and no result
\* returned, so after any number of timeouts another receive() follows.
C9_TimeoutKeepsListening ==
    [][rx_log' = Append(rx_log, Err(TimedOut)) =>
          /\ state' = "Listening"
          /\ reported' = reported
          /\ result' = NoResult]_vars

C9_Witness ==
    /\ rx_log = <<Err(TimedOut), Err(TimedOut), Err(TimedOut)>>
    /\ state = "Listening"
    /\ reported = <<>>
    /\ result = NoResult

\* C10: a non-timeout I/O error from receive() while Listening moves the
\* orchestrator to Failed: the loop stops, no further receive() is issued
\* and the error is the result of arp_scan.
C10_IoErrorIsFatal ==
    \A k \in 1..Len(rx_log) :
        (rx_log[k].kind = "Err" /\ rx_log[k].error \in IoErrors) =>
            /\ k = Len(rx_log)
            /\ state = "Failed"
            /\ result = rx_log[k]

\* C11: the orchestrator is Listening only after the frame was transmitted
\* successfully; when the send fails the scan is aborted with that error as
\* the result of arp_scan and receive() is never called.
C11_SendFailureIsFatal ==
    /\ state = "Listening" => send_results = <<"Some(Ok)">>
    /\ (send_results # <<>> /\ send_results[Len(send_results)] = "Some(Err)") =>
          /\ state = "Failed"
          /\ result.kind = "Err"
          /\ rx_log = <<>>

\* a raw frame the loop of this scan prints: a well-formed ARP reply whose
\* sender protocol address is the first address of the interface
MatchesScanner(raw) ==
    /\ WellFormedArp(raw, 2)
    /\ Len(interface.ips) > 0
    /\ interface.ips[1].v4
    /\ <<raw[29], raw[30], raw[31], raw[32]>> = interface.ips[1].octets

\* C12: a step that reports a match leaves the orchestrator Listening with
\* no result returned, and a matching reply that arrives after earlier
\* reports is reported as well.
C12_MatchKeepsListening ==
    [][\A o \in RxOutcomes :
          rx_log' = Append(rx_log, o) =>
             /\ reported' # reported =>
                   (state' = "Listening" /\ result' = NoResult)
             /\ (reported # <<>> /\ o.kind = "Ok" /\ MatchesScanner(o.value)) =>
                   Len(reported') = Len(reported) + 1]_vars

C12_Witness ==
    /\ state = "Listening"
    /\ Len(reported) = 3
    /\ Len(rx_log) = 3

UnsupportedChannel == "UnsupportedChannel"

\* C14: when the opened channel is of a kind other than Ethernet, arp_scan
\* fails with an UnsupportedChannel error returned as its result (not a
\* process abort) and no frame is sent.
C14_UnsupportedChannelIsResult ==
    (channel.kind = "Ok" /\ channel # Ok("Ethernet")) =>
        /\ state = "Failed"
        /\ result = Err(UnsupportedChannel)
        /\ sent = <<>>

\* a raw frame too short for an Ethernet header, or with an ethertype other
\* than 0x0806, or with fewer than 28 bytes after the header
MalformedOrIrrelevant(raw) ==
    \/ Len(raw) < 14
    \/ raw[13] # 8 \/ raw[14] # 6
    \/ Len(raw) - 14 < 28

\* C16: a received frame that is too short for an Ethernet header, has a
\* non-ARP ethertype or an unparseable ARP payload produces no error, no
\* report and no state change: the orchestrator stays Listening.
C16_MalformedIsIgnored ==
    [][\A o \in RxOutcomes :
          (rx_log' = Append(rx_log, o) /\ o.kind = "Ok"
             /\ MalformedOrIrrelevant(o.value)) =>
                /\ state' = "Listening"
                /\ reported' = reported
                /\ stderr_log' = stderr_log
                /\ result' = NoResult]_vars

C16_Witness ==
    /\ state = "Listening"
    /\ interface.ips = <<V4(Ip10), V6(Ip6a)>>
    /\ rx_log = <<Ok(ShortFrame), Ok(Ipv4Frame), Ok(TruncatedArp)>>
    /\ reported = <<>>
    /\ stderr_log = <<>>
    /\ result = NoResult

\* C20: when opening the raw channel fails with an I/O error, arp_scan
\* returns that same error as its result, the open is not retried, no frame
\* is sent and receive() is not called.
C20_OpenErrorReturned ==
    channel.kind = "Err" =>
        /\ state = "Failed"
        /\ result = channel
        /\ sent = <<>> /\ send_results = <<>>
        /\ rx_log = <<>>

C20_Witness ==
    /\ channel = Err("NotFound")
    /\ state = "Failed"
    /\ result = Err("NotFound")
    /\ interface.mac = MacA

\* C19 as stated: every execution of arp_scan, however it ends, has sent
\* exactly one request frame.
C19_ExactlyOneSendInEveryExecution ==
    state \in {"Listening", "Failed", "Panicked", "Terminated"} =>
        Len(sent) = 1

\* C19, amended: at most one request frame is sent in an execution of
\* arp_scan and exactly one in an execution that reaches the receive loop;
\* it is sent after the channel is opened and before the first receive(),
\* and none is sent after a timeout, a receive error or a match.
C19_SingleSend ==
    /\ Len(sent) <= 1
    /\ Len(sent) = Len(send_results)
    /\ state \in {"Idle", "Opening", "Sending"} => sent = <<>>
    /\ sent # <<>> => channel = Ok("Ethernet")
    /\ (state = "Listening" \/ rx_log # <<>>) => Len(sent) = 1

C19_Witness ==
    /\ state = "Listening"
    /\ Len(sent) = 1
    /\ interface.ips = <<V4(Ip10)>>
    /\ rx_log = <<Err(TimedOut), Err("NotConnected"), Ok(ArpReplyFrame(MacC, Ip10))>>
    /\ Len(reported) = 1

\* sender hardware and protocol address of a raw ARP frame, by offsets
SenderPair(raw) ==
    <<[k \in 1..6 |-> raw[22 + k]], [k \in 1..4 |-> raw[28 + k]]>>

\* the sender pairs of the frames of a receive log that the loop prints,
\* in the order of the log
RECURSIVE MatchingSenders(_)
MatchingSenders(log) ==
    IF Len(log) = 0 THEN <<>>
    ELSE LET o    == log[Len(log)]
             rest == MatchingSenders(SubSeq(log, 1, Len(log) - 1))
         IN  IF o.kind = "Ok" /\ MatchesScanner(o.value)
             THEN Append(rest, SenderPair(o.value))
             ELSE rest

\* C15: after every receive the reports are exactly the matching frames
\* delivered so far, in delivery order: each frame is decided and reported
\* in the step that received it, nothing is reordered or held back.
C15_ReportsInDeliveryOrder ==
    state \in {"Listening", "Panicked", "Failed"} =>
        [k \in 1..Len(reported) |->
            <<reported[k].sender_hw_addr, reported[k].sender_proto_addr>>]
          = MatchingSenders(rx_log)

C15_Witness ==
    /\ state = "Listening"
    /\ rx_log = <<Ok(ArpReplyFrame(MacB, Ip10)), Ok(ArpRequestFrame),
                  Ok(ArpReplyFrame(MacC, Ip10))>>
    /\ Len(reported) = 2
    /\ reported[1].sender_hw_addr = MacB
    /\ reported[2].sender_hw_addr = MacC

\* C13: once the caller has raised the cancellation signal, the loop makes
\* at most one further receive() call before arp_scan leaves Listening for
\* Terminated and returns.
C13_CancelStopsLoop ==
    cancel_at >= 0 => Len(rx_log) <= cancel_at + 1

\* the number a line of the model stands for, -1 when it is not a number
LineNumber(l) ==
    CASE l = <<"0", "\n">>                 -> 0
      [] l = <<"1", "\n">>                 -> 1
      [] l = <<" ", "1", " ", "\r", "\n">> -> 1
      [] l = <<"+", "1", "\n">>            -> 1
      [] l = <<"2", "\n">>                 -> 2
      [] l = <<"1", "0", "\n">>            -> 10
      [] OTHER                             -> -1

\* C18: prompt_for_interface returns Ok(i) only when the line just read is
\* the number i and i < interfaces.len(); any other line re-prompts, a read
\* error is returned as Err, so interfaces[index] in main is in bounds and
\* an empty list never yields Ok.
C18_PromptIndexInBounds ==
    /\ index_interface.kind = "Ok" =>
          /\ last_read.read.kind = "Ok"
          /\ LineNumber(last_read.read.value) = index_interface.value
          /\ index_interface.value >= 0
          /\ index_interface.value < Len(available)
    /\ (prompts > 0 /\ last_read.read.kind = "Ok"
          /\ ~(LineNumber(last_read.read.value) \in 0..(Len(available) - 1))) =>
          /\ index_interface = NoResult
          /\ prompt_pc = "prompting"
          /\ last_read.said \in {InvalidNumber, InvalidInput}
    /\ (prompts > 0 /\ last_read.read.kind = "Err") =>
          (index_interface = last_read.read /\ prompt_pc = "exited")
    /\ prompt_pc # "panicked"
    /\ prompt_pc = "scanning" =>
          selected = Ok(available[index_interface.value + 1])
    /\ Len(available) = 0 => index_interface.kind # "Ok"

C18_Witness ==
    /\ prompt_pc = "scanning"
    /\ prompts = 2
    /\ Len(available) = 2
    /\ index_interface = Ok(1)
    /\ selected = Ok(available[2])

\* the Ipv4Network each well-formed argument denotes, written out by hand
ExpectedNetwork(s) ==
    CASE s = ArgNet24 -> [ip |-> <<192, 168, 0, 1>>, prefix |-> 24]
      [] s = ArgNet8  -> [ip |-> <<10, 0, 0, 0>>, prefix |-> 8]
      [] s = ArgHost  -> [ip |-> <<192, 168, 0, 1>>, prefix |-> 32]

ValidArgStrings == {ArgNet24, ArgNet8, ArgHost}

\* C17: get_target_ip_from_args reads only the second argument: fewer than
\* two arguments give Err("Missing target IP address"), a second argument
\* that is not an IPv4 network gives an Err starting with "Failed to parse
\* IP address: ", a valid one gives Ok of the parsed network, and arguments
\* after the second never affect the result.
C17_TargetFromSecondArgument ==
    args_pc = "parsed" =>
        /\ Len(args) < 2 => ip_target = Err(<<MissingTarget>>)
        /\ (Len(args) >= 2 /\ args[2] \notin ValidArgStrings) =>
               /\ ip_target.kind = "Err"
               /\ ip_target.error[1] = FailedToParse
        /\ (Len(args) >= 2 /\ args[2] \in ValidArgStrings) =>
               ip_target = Ok(ExpectedNetwork(args[2]))
        /\ Len(args) > 2 =>
               ip_target = get_target_ip_from_args(SubSeq(args, 1, 2))

C17_Witness ==
    /\ args_pc = "parsed"
    /\ Len(args) >= 3
    /\ args[1] = ArgProgram
    /\ args[2] = ArgNet24
    /\ args[3] = ArgInvalidIp
    /\ ip_target = Ok([ip |-> <<192, 168, 0, 1>>, prefix |-> 24])

\* C21: the sender protocol address of the request is the first IPv4
\* address of the interface's address list in list order, also when IPv6
\* addresses precede it and when several IPv4 addresses are bound.
C21_SourceIsFirstIpv4 ==
    \A i \in 1..Len(sent) :
        \E k \in 1..Len(interface.ips) :
            /\ interface.ips[k].v4
            /\ \A j \in 1..(k - 1) : ~interface.ips[j].v4
            /\ get_sender_proto_addr(payload(sent[i])) = interface.ips[k].octets

C21_Witness ==
    /\ interface.ips = <<V6(Ip6a), V4(Ip20)>>
    /\ Len(sent) = 1
    /\ get_sender_proto_addr(payload(sent[1])) = Ip20

\* the same case with two IPv4 addresses bound
C21_WitnessSeveralIpv4 ==
    /\ interface.ips = <<V4(Ip20), V4(Ip10)>>
    /\ Len(sent) = 1
    /\ get_sender_proto_addr(payload(sent[1])) = Ip20

\* C22: the receive loop reports an ARP reply exactly when its sender
\* protocol address equals the interface's first IPv4 address, the address
\* derived as source_ip and written into the request, for every ordering
\* of IPv4 and IPv6 addresses on the interface.
C22_ReportsIffSenderIsSourceIp ==
    [][\A o \in RxOutcomes :
          (rx_log' = Append(rx_log, o) /\ IsReplyOutcome(o)) =>
             ((reported' # reported) <=>
                 get_sender_proto_addr(payload(o.value)) = source_ip)]_vars

\* C23: interface.ips[0] in the receive loop is never out of bounds: in
\* every execution that reaches receive_arp_responses the address list is
\* non-empty, the list from which arp_scan derived its source address
\* before the channel was opened.
C23_FirstAddressExists ==
    /\ (state = "Listening" \/ rx_log # <<>>) =>
          /\ Len(interface.ips) >= 1
          /\ \E a \in Range(interface.ips) : a.v4 /\ a.octets = source_ip
    /\ result # Panic(IndexOutOfBounds)

C23_Witness ==
    /\ state = "Listening"
    /\ Len(interface.ips) = 1
    /\ Len(rx_log) >= 1
    /\ IsReplyOutcome(rx_log[Len(rx_log)])
    /\ Len(reported) >= 1

====
